---- MODULE Spec2Model ----
(***************************************************************************)
(* A model of xlogit's MixedLogit (src/xlogit/mixed_logit.py): the         *)
(* fit / predict session (input set-up, validations, random-variable       *)
(* bookkeeping), the panel balancer, the simulated-likelihood evaluator    *)
(* (_compute_probabilities, _prob_product_across_panels, _loglik_gradient, *)
(* _concat_gradients, _transform_betas, _compute_derivatives), and the     *)
(* Halton draws (_get_halton_draws).                                       *)
(*                                                                         *)
(* Python values are modelled as follows.                                  *)
(*  - An optional value (None or v) is a record [none, val].               *)
(*  - The randvars dict is the sequence of its items in declaration        *)
(*    (insertion) order, each item a record [name, dist].                  *)
(*  - numpy arrays are sequences (of sequences ...), indexed from 1.       *)
(*  - An exception is the string naming it; "ok" is a normal return.       *)
(***************************************************************************)
EXTENDS Integers, Sequences, FiniteSets, Bags, TLC

VARIABLES
    randvars,       \* self.randvars   (optional dict)
    rvidx,          \* self._rvidx     (optional boolean mask over columns)
    rvdist,         \* self._rvdist    (optional list of distribution codes)
    coeff_names,    \* self.coeff_names (optional list of names)
    coeff_,         \* self.coeff_     (optional coefficient vector)
    call,           \* the last public call: its arguments, the steps it
                    \* went through (in order) and how it ended
    args,           \* args=(X, y, panel_info, draws, weights, avail): what the
                    \* minimizer passes to _loglik_gradient on every call
    xk,             \* the parameter vector (betas) the last call was passed,
                    \* what it is after the call, and whether the call
                    \* before was passed the same
    total_fun_eval, \* self.total_fun_eval
    ret,            \* what the last call returned: [value, grad]
    locals,         \* locals of the last call: p (N,P,J,R), pch (N,R), lik (N,),
                    \* Br and der (N,Kr,R), grad before the sum (N,K+Kr)
    bal,            \* _balance_panels on its own: the tensors it was last
                    \* given or has last returned
    hal             \* _get_halton_draws on its own: its arguments, what
                    \* halton_seq returned for every variable, and the draws

sessVars == <<randvars, rvidx, rvdist, coeff_names, coeff_, call>>

evalVars == <<args, xk, total_fun_eval, ret, locals>>

vars == <<randvars, rvidx, rvdist, coeff_names, coeff_, call,
          args, xk, total_fun_eval, ret, locals, bal, hal>>

-----------------------------------------------------------------------------
(* Python helpers *)

None == [none |-> TRUE, val |-> <<>>]
Some(v) == [none |-> FALSE, val |-> v]

Range(s) == {s[i] : i \in DOMAIN s}

\* np.where(mask)[0]: the positions where mask is TRUE, ascending
RECURSIVE Where(_, _)
Where(mask, want) ==
    IF mask = <<>> THEN <<>>
    ELSE LET n == Len(mask)
             front == Where(SubSeq(mask, 1, n - 1), want)
         IN IF mask[n] = want THEN Append(front, n) ELSE front

\* dict.keys(), dict.values(), dict[key]
Keys(d) == {d[i].name : i \in DOMAIN d}
Values(d) == {d[i].dist : i \in DOMAIN d}
DictGet(d, key) == d[CHOOSE i \in DOMAIN d : d[i].name = key].dist

\* a[mask]: the entries of a at the positions where the boolean mask is TRUE
RECURSIVE BoolIndex(_, _)
BoolIndex(a, mask) ==
    IF a = <<>> THEN <<>>
    ELSE (IF Head(mask) THEN <<Head(a)>> ELSE <<>>)
             \o BoolIndex(Tail(a), Tail(mask))

Not(mask) == [i \in DOMAIN mask |-> ~mask[i]]


-----------------------------------------------------------------------------
(* Numbers.                                                                *)
(*                                                                         *)
(* Utilities, coefficients and draws are integers.  A probability is a     *)
(* quotient of sums of exponentials of integers, which no machine number   *)
(* holds exactly, so a non-negative number is kept as the sum itself: the  *)
(* bag that holds the exponent v once for every exp(v) in the sum.  Two    *)
(* such sums are the same number exactly when they are the same bag        *)
(* (distinct integer powers of e are linearly independent over the         *)
(* rationals).  A quotient is the pair of its numerator and denominator.   *)
(* Arithmetic on them is exact, without rounding; what is kept of float64  *)
(* is that exp returns 0 below its underflow threshold.                    *)

\* the natural number n, which is n * exp(0)
FromNat(n) == IF n = 0 THEN EmptyBag ELSE [e \in {0} |-> n]

\* a + b
EAdd(a, b) == a (+) b

\* a * b: every term of a times every term of b
EMul(a, b) ==
    BagUnion({[e \in {x + z : z \in DOMAIN b} |-> a[x] * b[e - x]] :
                 x \in DOMAIN a})

\* quotients a / b of such numbers, b # 0
QDiv(a, b) == [n |-> a, d |-> b]
QZero == QDiv(EmptyBag, FromNat(1))
QOne == QDiv(FromNat(1), FromNat(1))
QIsZero(q) == q.n = EmptyBag
QEq(a, b) == EMul(a.n, b.d) = EMul(b.n, a.d)
QMul(a, b) == QDiv(EMul(a.n, b.n), EMul(a.d, b.d))
QAdd(a, b) ==
    IF a.d = b.d THEN QDiv(EAdd(a.n, b.n), a.d)
    ELSE QDiv(EAdd(EMul(a.n, b.d), EMul(b.n, a.d)), EMul(a.d, b.d))

\* sums and products over the first n entries of a sequence
RECURSIVE SumIntTo(_, _)
SumIntTo(s, n) == IF n = 0 THEN 0 ELSE SumIntTo(s, n - 1) + s[n]
RECURSIVE SumETo(_, _)
SumETo(s, n) == IF n = 0 THEN EmptyBag ELSE EAdd(SumETo(s, n - 1), s[n])
RECURSIVE SumQTo(_, _)
SumQTo(s, n) == IF n = 0 THEN QZero ELSE QAdd(SumQTo(s, n - 1), s[n])
RECURSIVE ProdQTo(_, _)
ProdQTo(s, n) == IF n = 0 THEN QOne ELSE QMul(ProdQTo(s, n - 1), s[n])

\* sums and products over a sequence
SumInt(s) == SumIntTo(s, Len(s))
SumE(s) == SumETo(s, Len(s))
SumQ(s) == SumQTo(s, Len(s))
ProdQ(s) == ProdQTo(s, Len(s))

\* MAX_COMP_EXP = 700 (line 20): the ceiling of a utility
MAX_COMP_EXP == 700
\* float64: exp(v) is 0.0 for every integer v below -745
EXP_UNDERFLOW == -745
\* MIN_COMP_ZERO = 1e-300 (line 19), here the power of e next to it,
\* exp(-691) = 0.8e-300
MIN_COMP_ZERO_EXP == -691
MIN_COMP_ZERO == [e \in {MIN_COMP_ZERO_EXP} |-> 1]

\* np.exp on a utility (line 387)
Exp(v) == IF v < EXP_UNDERFLOW THEN EmptyBag ELSE [e \in {v} |-> 1]

\* np.exp on a realization of a random coefficient (line 465).  The
\* coefficient multiplies an attribute inside a utility, so it has to be
\* an integer: the realization is 0.
ExpZero(v) == IF v = 0 THEN 1 ELSE 0

-----------------------------------------------------------------------------
(* Bounds of the session model *)

\* the variable names a caller may use
Names == {"a", "b", "c"}
\* the largest number of entries of the randvars dict
MaxRand == 2
\* The distribution codes a caller declares, by position in the dict: all
\* accepted (and all different, so that an entry is recognised by its
\* code), or starting with a code that is not accepted.
DistPatterns == {<<"n", "ln", "tn", "u">>, <<"x", "n", "ln", "tn">>}

-----------------------------------------------------------------------------
(* fit / predict: input set-up *)

\* _setup_design_matrix is called with isvars=None and fit_intercept=False:
\* the design matrix has one column per entry of varnames, in that order.
setup_design_matrix(varnames) == varnames

\* What line 343 raises.  The message is built as  str + int + int, which
\* Python refuses with a TypeError before any ValueError is constructed.
init_coeff_size_error == "TypeError: can only concatenate str (not int) to str"

\* _model_specific_validations without the check of the distribution codes
model_specific_validations_no_dist_check(rv, Xnames) ==
    IF rv.none
    THEN "ValueError: The 'randvars' parameter is required"
    ELSE IF ~(Keys(rv.val) \subseteq Range(Xnames))
    THEN "ValueError: Some variable names in 'randvars' were not found"
    ELSE "ok"

\* _model_specific_validations: the exception raised, or "ok"
model_specific_validations(rv, Xnames) ==
    IF rv.none
    THEN "ValueError: The 'randvars' parameter is required"
    ELSE IF ~(Keys(rv.val) \subseteq Range(Xnames))
    THEN "ValueError: Some variable names in 'randvars' were not found"
    ELSE IF ~(Values(rv.val) \subseteq {"n", "ln", "t", "tn", "u"})
    THEN "ValueError: Wrong mixing distribution found in 'randvars'"
    ELSE "ok"

\* _setup_randvars_info with _rvdist filled in the order of the dict
setup_randvars_info_declared_order(rv, Xnames) ==
    [randvars |-> rv,
     rvidx |-> Some([i \in DOMAIN Xnames |-> Xnames[i] \in Keys(rv.val)]),
     rvdist |-> Some([k \in DOMAIN rv.val |-> rv.val[k].dist])]

\* _setup_randvars_info: the new self.randvars, self._rvidx, self._rvdist.
\* The loop runs over Xnames, so _rvdist is filled in column order.
setup_randvars_info(rv, Xnames) ==
    LET mask == [i \in DOMAIN Xnames |-> Xnames[i] \in Keys(rv.val)]
        W == Where(mask, TRUE)
    IN [randvars |-> rv,
        rvidx |-> Some(mask),
        rvdist |-> Some([k \in 1..Len(W) |-> DictGet(rv.val, Xnames[W[k]])])]

\* _setup_input_data, as far as names, sizes and the order of its steps go.
\* self is the record of the model's fields the method reads and writes.
setup_input_data(self, varnames, rv, init_coeff, panels, predict_mode) ==
    LET Xnames == setup_design_matrix(varnames)
        log1 == <<"arrange_long_format", "setup_design_matrix",
                  "model_specific_validations">>
        verr == model_specific_validations(rv, Xnames)
    IN IF verr # "ok"
       THEN [err |-> verr, log |-> log1, self |-> self,
             betas |-> None, Xnames |-> Xnames]
       ELSE
       LET K == Len(Xnames)
           Kr == Len(rv.val)
           log2 == IF panels THEN Append(log1, "balance_panels") ELSE log1
           self2 == IF predict_mode THEN self
                    ELSE setup_randvars_info(rv, Xnames)
           log3 == IF predict_mode THEN log2
                   ELSE Append(log2, "setup_randvars_info")
           log4 == Append(log3, "generate_draws")
       IN IF init_coeff.none
          THEN [err |-> "ok", log |-> log4, self |-> self2,
                betas |-> Some([i \in 1..(K + Kr) |-> 1]), Xnames |-> Xnames]
          ELSE IF Len(init_coeff.val) # K + Kr
          THEN [err |-> init_coeff_size_error, log |-> log4, self |-> self2,
                betas |-> None, Xnames |-> Xnames]
          ELSE [err |-> "ok", log |-> log4, self |-> self2,
                betas |-> init_coeff, Xnames |-> Xnames]

\* _transform_betas, lines 522 to 524: how betas is cut into the fixed
\* coefficients, the means and the standard deviations of the random ones
betas_split(betas, mask) ==
    LET Wf == Where(Not(mask), TRUE)
        Wr == Where(mask, TRUE)
    IN [betas_fixed |-> [a \in 1..Len(Wf) |-> betas[Wf[a]]],
        br_mean |-> [k \in 1..Len(Wr) |-> betas[Wr[k]]],
        br_sd |-> SubSeq(betas, Len(mask) + 1, Len(betas))]

\* np.append(Xnames, np.char.add("sd.", Xnames[self._rvidx])): a boolean
\* mask of another length than Xnames is an IndexError.
coef_names(Xnames, mask) ==
    IF Len(mask) # Len(Xnames) THEN [err |-> "IndexError", val |-> <<>>]
    ELSE LET W == Where(mask, TRUE)
         IN [err |-> "ok",
             val |-> Xnames \o [k \in 1..Len(W) |-> "sd." \o Xnames[W[k]]]]

-----------------------------------------------------------------------------
(* The arguments a caller may pass *)

\* sequences of distinct names
RECURSIVE Arrangements(_, _)
Arrangements(S, n) ==
    IF n = 0 THEN {<<>>}
    ELSE {Append(s, x) : s \in Arrangements(S, n - 1), x \in S}

Distinct(s) == \A i, j \in DOMAIN s : i # j => s[i] # s[j]

\* varnames: two or three columns, in and out of alphabetical order
VarnamesArgs == {<<"a", "b">>, <<"b", "a">>, <<"a", "b", "c">>}

\* randvars: None, or a dict of one to MaxRand entries.  (An empty dict is
\* left out: with no random coefficient the default Halton draws cannot be
\* stacked and the call ends there for a reason no claim is about.)
RandvarsArgs ==
    {None} \cup
    {Some([i \in DOMAIN ns |-> [name |-> ns[i], dist |-> pat[i]]]) :
        ns \in {s \in UNION {Arrangements(Names, n) : n \in 1..MaxRand} :
                   Distinct(s)},
        pat \in DistPatterns}

\* init_coeff: absent, or a vector as long as, or one longer than, the
\* K + Kr the call needs
InitCoeffArgs(varnames, rv) ==
    LET need == Len(varnames) + (IF rv.none THEN 0 ELSE Len(rv.val))
    IN {None} \cup {Some([i \in 1..n |-> 1]) : n \in {need, need + 1}}

-----------------------------------------------------------------------------
(* The session: a model object and the public calls on it *)

NoCall == [op |-> "init", varnames |-> <<>>, randvars |-> None,
           init_coeff |-> None, panels |-> FALSE, err |-> "ok", log |-> <<>>]

\* no data has been set up and nothing has been evaluated
NoData ==
    /\ args = <<>>
    /\ xk = <<>>
    /\ total_fun_eval = 0
    /\ ret = <<>>
    /\ locals = <<>>
    /\ bal = <<>>
    /\ hal = <<>>

\* __init__
Init ==
    /\ randvars = None
    /\ rvidx = None
    /\ rvdist = None
    /\ coeff_names = None
    /\ coeff_ = None
    /\ call = NoCall
    /\ NoData

\* fit(X, y, varnames, alts, ids, randvars, panels=..., init_coeff=...)
Fit(varnames, rv, init_coeff, panels) ==
    /\ call.op = "init"
    /\ LET self == [randvars |-> randvars, rvidx |-> rvidx, rvdist |-> rvdist]
           r == setup_input_data(self, varnames, rv, init_coeff, panels, FALSE)
           pre == <<"validate_inputs", "pre_fit">>
           ok == r.err = "ok"
           names == coef_names(r.Xnames, r.self.rvidx.val)
       IN /\ randvars' = r.self.randvars
          /\ rvidx' = r.self.rvidx
          /\ rvdist' = r.self.rvdist
          /\ coeff_names' = IF ok THEN Some(names.val) ELSE coeff_names
          /\ coeff_' = IF ok THEN r.betas ELSE coeff_
          /\ call' = [op |-> "fit", varnames |-> varnames, randvars |-> rv,
                      init_coeff |-> init_coeff, panels |-> panels,
                      err |-> r.err,
                      log |-> IF ok
                              THEN pre \o r.log \o <<"minimize",
                                                     "loglik_gradient",
                                                     "post_fit">>
                              ELSE pre \o r.log]
    /\ UNCHANGED <<evalVars, bal, hal>>

\* predict(X, varnames, alts, ids, panels=...) on a fitted model
Predict(varnames, panels) ==
    /\ call.op = "init"
    /\ ~coeff_names.none
    /\ LET self == [randvars |-> randvars, rvidx |-> rvidx, rvdist |-> rvdist]
           r == setup_input_data(self, varnames, randvars, coeff_, panels, TRUE)
           pre == <<"validate_inputs">>
           names == coef_names(r.Xnames, rvidx.val)
           err == IF r.err # "ok" THEN r.err
                  ELSE IF names.err # "ok" THEN names.err
                  ELSE IF names.val # coeff_names.val
                  THEN "ValueError: The provided 'varnames' yield coefficient names that are inconsistent"
                  ELSE "ok"
       IN call' = [op |-> "predict", varnames |-> varnames,
                   randvars |-> randvars, init_coeff |-> coeff_,
                   panels |-> panels, err |-> err,
                   log |-> IF err = "ok"
                           THEN pre \o r.log \o <<"compute_probabilities",
                                                  "prob_product_across_panels">>
                           ELSE pre \o r.log]
    /\ UNCHANGED <<randvars, rvidx, rvdist, coeff_names, coeff_>>
    /\ UNCHANGED <<evalVars, bal, hal>>

\* The call returns, or its exception reaches the caller: no call is in
\* progress any more.
Return ==
    /\ call.op # "init"
    /\ call' = NoCall
    /\ UNCHANGED <<randvars, rvidx, rvdist, coeff_names, coeff_>>
    /\ UNCHANGED <<evalVars, bal, hal>>

Next ==
    \/ \E varnames \in VarnamesArgs, rv \in RandvarsArgs :
          \E init_coeff \in InitCoeffArgs(varnames, rv) :
              Fit(varnames, rv, init_coeff, TRUE)
    \/ \E varnames \in VarnamesArgs :
          Predict(varnames, TRUE)
    \/ Return

Spec == Init /\ [][Next]_vars

-----------------------------------------------------------------------------
(* Claims about the session *)

FitDone == call.op = "fit" /\ call.err = "ok"

\* the numerical steps of a call
NumericalWork ==
    {"balance_panels", "generate_draws", "minimize", "loglik_gradient",
     "compute_probabilities", "prob_product_across_panels"}

\* where each entry of a parameter vector of length n is read by
\* _transform_betas: the vector of positions 1..n, cut as betas is cut
ReadAt(n, mask) == betas_split([i \in 1..n |-> i], mask)

\* C2, as stated: after a fit, betas has K + Kr entries, the first K are the
\* coefficients (means) of the columns in column order, and the i-th
\* standard deviation, the i-th mixing distribution and the i-th "sd." name
\* all belong to the i-th DECLARED random variable.
C2_SdFollowDeclarationOrder ==
    FitDone =>
        LET Xn == call.varnames
            K == Len(Xn)
            rv == call.randvars.val
            Kr == Len(rv)
            at == ReadAt(K + Kr, rvidx.val)
        IN /\ Len(coeff_.val) = K + Kr
           /\ Len(coeff_names.val) = K + Kr
           /\ \A j \in 1..K : coeff_names.val[j] = Xn[j]
           /\ Len(at.br_sd) = Kr /\ Len(at.br_mean) = Kr /\ Len(rvdist.val) = Kr
           /\ \A i \in 1..Kr :
                /\ at.br_sd[i] = K + i
                /\ Xn[at.br_mean[i]] = rv[i].name
                /\ rvdist.val[i] = rv[i].dist
                /\ coeff_names.val[K + i] = "sd." \o rv[i].name

\* C2, amended: ... all belong to the i-th random COLUMN of X, in column
\* order (the i-th column of Xr = X[..., _rvidx]), whatever the order in
\* which randvars declares the variables.
C2_SdFollowColumnOrder ==
    FitDone =>
        LET Xn == call.varnames
            K == Len(Xn)
            rv == call.randvars.val
            Kr == Len(rv)
            at == ReadAt(K + Kr, rvidx.val)
            fcols == BoolIndex(Xn, Not(rvidx.val))
            rcols == BoolIndex(Xn, rvidx.val)
        IN /\ Len(coeff_.val) = K + Kr
           /\ Len(coeff_names.val) = K + Kr
           /\ \A j \in 1..K : coeff_names.val[j] = Xn[j]
           /\ Len(at.betas_fixed) = Len(fcols)
           /\ \A a \in 1..Len(fcols) :
                /\ at.betas_fixed[a] \in 1..K
                /\ Xn[at.betas_fixed[a]] = fcols[a]
           /\ Len(at.br_sd) = Kr /\ Len(at.br_mean) = Kr
           /\ Len(rvdist.val) = Kr /\ Len(rcols) = Kr
           /\ \A i \in 1..Kr :
                /\ at.br_sd[i] = K + i
                /\ at.br_mean[i] \in 1..K
                /\ Xn[at.br_mean[i]] = rcols[i]
                /\ rvdist.val[i] = DictGet(rv, rcols[i])
                /\ coeff_names.val[K + i] = "sd." \o rcols[i]

\* C2's case: a fit whose randvars declares two variables in the opposite
\* of their column order
C2_Witness ==
    /\ FitDone
    /\ Len(call.randvars.val) = 2
    /\ call.randvars.val[1].name = call.varnames[2]
    /\ call.randvars.val[2].name = call.varnames[1]
    /\ rvdist.val[1] # rvdist.val[2]

\* the ValueError the message of line 343 is meant for
InitCoeffSizeValueError == "ValueError: The size of init_coeff must be: K + Kr"

InitCoeffMismatch ==
    /\ call.op = "fit"
    /\ ~call.init_coeff.none
    /\ ~call.randvars.none
    /\ Keys(call.randvars.val) \subseteq Range(call.varnames)
    /\ Values(call.randvars.val) \subseteq {"n", "ln", "t", "tn", "u"}
    /\ Len(call.init_coeff.val) # Len(call.varnames) + Len(call.randvars.val)

\* C3: a fit with an init_coeff of another length than K + Kr ends in a
\* ValueError that states the required size, before draws are generated
\* and before the minimizer or the evaluator is called.
C3_InitCoeffSizeFailsFast ==
    InitCoeffMismatch =>
        /\ call.err = InitCoeffSizeValueError
        /\ Range(call.log) \cap {"generate_draws", "minimize",
                                 "loglik_gradient"} = {}

\* the randvars argument is None, names a variable that is no column, or
\* carries a code outside {n, ln, t, tn, u}
InvalidRandvars(rv, varnames) ==
    \/ rv.none
    \/ \E i \in DOMAIN rv.val : rv.val[i].name \notin Range(varnames)
    \/ \E i \in DOMAIN rv.val : rv.val[i].dist \notin {"n", "ln", "t", "tn", "u"}

RandvarsValueErrors ==
    {"ValueError: The 'randvars' parameter is required",
     "ValueError: Some variable names in 'randvars' were not found",
     "ValueError: Wrong mixing distribution found in 'randvars'"}

\* C4: a fit whose randvars is None, names an unknown variable or carries a
\* wrong distribution code raises a ValueError before panels are balanced,
\* before draws are generated and before the evaluator is called, and
\* leaves self.randvars, self._rvidx and self._rvdist as they were.
C4_InvalidRandvarsFailFast ==
    [][(call.op = "init" /\ call'.op = "fit"
            /\ InvalidRandvars(call'.randvars, call'.varnames))
        => /\ call'.err \in RandvarsValueErrors
           /\ Range(call'.log) \cap NumericalWork = {}
           /\ randvars' = randvars
           /\ rvidx' = rvidx
           /\ rvdist' = rvdist]_vars

\* C4's case: on a model that an earlier fit has set up, a fit with a wrong
\* distribution code has been refused
C4_Witness ==
    /\ call.op = "fit"
    /\ ~call.randvars.none
    /\ InvalidRandvars(call.randvars, call.varnames)
    /\ Keys(call.randvars.val) \subseteq Range(call.varnames)
    /\ call.err \in RandvarsValueErrors
    /\ ~randvars.none
    /\ ~rvidx.none

InconsistentNamesError ==
    "ValueError: The provided 'varnames' yield coefficient names that are inconsistent"

\* the coefficient names the varnames of a predict call yield differ from
\* the stored ones
YieldsOtherNames ==
    /\ call.op = "predict"
    /\ LET names == coef_names(call.varnames, rvidx.val)
       IN names.err # "ok" \/ names.val # coeff_names.val

\* C5: a predict whose varnames yield other coefficient names than the
\* stored ones (another number of variables included) raises the
\* ValueError about inconsistent names, before any draws are generated or
\* probabilities are computed.
C5_PredictOtherNamesFailsFast ==
    YieldsOtherNames =>
        /\ call.err = InconsistentNamesError
        /\ Range(call.log) \cap {"generate_draws", "compute_probabilities",
                                 "prob_product_across_panels"} = {}

-----------------------------------------------------------------------------
(* Panels.  A tensor is a nested sequence; X is (T,J,K) in the long format,
   one row t per choice situation.  y, whose shape _balance_panels may
   change, is a record of its shape and its rows (T,J). *)

Max(S) == CHOOSE m \in S : \A v \in S : v <= m

\* np.unique: the values of a set in increasing order
RECURSIVE SortedSeq(_)
SortedSeq(S) ==
    IF S = {} THEN <<>>
    ELSE LET m == Max(S) IN Append(SortedSeq(S \ {m}), m)

\* np.zeros((J, K)) and np.ones((N, P))
Zeros(J, K) == [j \in 1..J |-> [k \in 1..K |-> 0]]
Ones(N, P) == [n \in 1..N |-> [q \in 1..P |-> 1]]

\* p_obs of _balance_panels (lines 479, 480): the number of periods of
\* every panel, in the order of the sorted panel ids.  panels holds the
\* panel id of every row of the long format, J rows per period.
panel_periods(panels, J) ==
    LET ids == SortedSeq(Range(panels))
    IN [i \in DOMAIN ids |->
          Cardinality({t \in DOMAIN panels : panels[t] = ids[i]}) \div J]

\* The "balancing needed" branch with cum_p left at 0 (without line 495)
pad_panels_no_cum(X, y, panels) ==
    LET J == Len(X[1])
        K == Len(X[1][1])
        p_obs == panel_periods(panels, J)
        N == Len(p_obs)
        P == Max(Range(p_obs))
        pn(t) == ((t - 1) \div P) + 1
        pq(t) == ((t - 1) % P) + 1
    IN [X |-> [t \in 1..(N * P) |->
                 IF pq(t) <= p_obs[pn(t)] THEN X[pq(t)] ELSE Zeros(J, K)],
        y |-> IF y.none THEN None
              ELSE Some([shape |-> <<N * P, J, 1>>,
                         rows |-> [t \in 1..(N * P) |->
                                     IF pq(t) <= p_obs[pn(t)]
                                     THEN y.val.rows[pq(t)]
                                     ELSE [j \in 1..J |-> 0]]]),
        panel_info |-> [n \in 1..N |-> [q \in 1..P |->
                          IF q <= p_obs[n] THEN 1 ELSE 0]]]

\* The "balancing needed" branch of _balance_panels (lines 485 to 495):
\* every panel is copied into a block of P rows, the rows it does not fill
\* stay zero.
pad_panels(X, y, panels) ==
    LET J == Len(X[1])
        K == Len(X[1][1])
        p_obs == panel_periods(panels, J)
        N == Len(p_obs)
        P == Max(Range(p_obs))
        \* cum_p when the loop reaches panel n
        cum_p(n) == SumInt(SubSeq(p_obs, 1, n - 1))
        \* the panel and the period a row of the balanced tensors belongs to
        pn(t) == ((t - 1) \div P) + 1
        pq(t) == ((t - 1) % P) + 1
    IN [X |-> [t \in 1..(N * P) |->
                 IF pq(t) <= p_obs[pn(t)]
                 THEN X[cum_p(pn(t)) + pq(t)]
                 ELSE Zeros(J, K)],
        y |-> IF y.none THEN None
              ELSE Some([shape |-> <<N * P, J, 1>>,
                         rows |-> [t \in 1..(N * P) |->
                                     IF pq(t) <= p_obs[pn(t)]
                                     THEN y.val.rows[cum_p(pn(t)) + pq(t)]
                                     ELSE [j \in 1..J |-> 0]]]),
        panel_info |-> [n \in 1..N |-> [q \in 1..P |->
                          IF q <= p_obs[n] THEN 1 ELSE 0]]]

\* _balance_panels taking the balancing branch whatever the panels are
balance_panels_always_pads(X, y, panels) == pad_panels(X, y, panels)

\* _balance_panels(X, y, panels): X is (T,J,K), y is None or (T,J).
\* Returns Xbal, ybal, panel_info.
balance_panels(X, y, panels) ==
    LET p_obs == panel_periods(panels, Len(X[1]))
        N == Len(p_obs)
        P == Max(Range(p_obs))
    IN IF \E i \in DOMAIN p_obs : p_obs[i] # p_obs[1]
       THEN pad_panels(X, y, panels)
       ELSE [X |-> X, y |-> y, panel_info |-> Ones(N, P)]

-----------------------------------------------------------------------------
(* The data of the evaluator and of the balancing step *)

\* N choice situations (panels), at most MaxP periods each, J alternatives,
\* R draws
NSit == 2
MaxP == 2
NAlts == 2
NDraws == 2
\* the columns of the design matrix
EvalNames == <<"a", "b", "c">>
\* The attribute in column 1 of the first and of the second alternative:
\* with a coefficient of 1 or -1 the utility is far above the ceiling of
\* MAX_COMP_EXP, far below the underflow of exp, or moderate.
Levels == {-1000, 0, 1000}

\* how many periods each panel has
PanelOptions == {"none", "balanced", "longfirst", "shortfirst"}
PanelLengths(opt) ==
    [n \in 1..NSit |->
        IF opt = "none" THEN 1
        ELSE IF opt = "balanced" THEN MaxP
        ELSE IF opt = "longfirst" THEN MaxP - ((n - 1) % MaxP)
        ELSE 1 + ((n - 1) % MaxP)]

\* the (panel, period) of every row of the long format, panels in order
RECURSIVE LongRows(_, _)
LongRows(lens, n) ==
    IF n > Len(lens) THEN <<>>
    ELSE [q \in 1..lens[n] |-> [n |-> n, q |-> q]] \o LongRows(lens, n + 1)

\* the design matrix in the long format, (T,J,K)
LongX(d) ==
    LET rows == LongRows(PanelLengths(d.panel), 1)
    IN [t \in DOMAIN rows |-> [j \in 1..NAlts |-> [k \in DOMAIN EvalNames |->
          IF k = 1
          THEN (IF j = 1 THEN d.la ELSE IF j = 2 THEN d.lb ELSE 0)
                   + ((rows[t].n + rows[t].q) % 2)
          ELSE IF k = 2 THEN (rows[t].n + rows[t].q + j) % 3
          ELSE IF j = 1 THEN 1 ELSE 0]]]

\* the one-hot choices in the long format, (T,J)
LongY(d) ==
    LET rows == LongRows(PanelLengths(d.panel), 1)
    IN [shape |-> <<Len(rows), NAlts>>,
        rows |-> [t \in DOMAIN rows |-> [j \in 1..NAlts |->
                    IF j = ((d.c + rows[t].n + rows[t].q) % NAlts) + 1
                    THEN 1 ELSE 0]]]

\* the panel id of every row of the long format (J rows per period)
RECURSIVE Repeat(_, _)
Repeat(v, n) == IF n = 0 THEN <<>> ELSE Append(Repeat(v, n - 1), v)
RECURSIVE LongPanels(_, _, _)
LongPanels(lens, J, n) ==
    IF n > Len(lens) THEN <<>>
    ELSE Repeat(n, lens[n] * J) \o LongPanels(lens, J, n + 1)

-----------------------------------------------------------------------------
(* _balance_panels on its own *)

\* how often the output of a balancing step is balanced again
MaxBal == 2

BalInputs ==
    [la : Levels, lb : Levels, c : {0, 1},
     panel : PanelOptions \ {"none"}, y : BOOLEAN]

InitBal ==
    /\ randvars = None
    /\ rvidx = None
    /\ rvdist = None
    /\ coeff_names = None
    /\ coeff_ = None
    /\ call = NoCall
    /\ args = <<>>
    /\ xk = <<>>
    /\ total_fun_eval = 0
    /\ ret = <<>>
    /\ locals = <<>>
    /\ hal = <<>>
    /\ \E d \in BalInputs :
          bal = [X |-> LongX(d),
                 y |-> IF d.y THEN Some(LongY(d)) ELSE None,
                 panels |-> LongPanels(PanelLengths(d.panel), NAlts, 1),
                 panel_info |-> <<>>,
                 first |-> <<>>,
                 calls |-> 0]

\* X, y, panel_info = self._balance_panels(X, y, panels); the panels of
\* the result are N panels of P periods each.
BalancePanels ==
    /\ bal.calls < MaxBal
    /\ LET r == balance_panels(bal.X, bal.y, bal.panels)
           N == Len(r.panel_info)
           P == Len(r.panel_info[1])
       IN bal' = [X |-> r.X,
                  y |-> r.y,
                  panels |-> LongPanels([n \in 1..N |-> P], Len(r.X[1]), 1),
                  panel_info |-> r.panel_info,
                  first |-> IF bal.calls = 0 THEN r.panel_info
                            ELSE bal.first,
                  calls |-> bal.calls + 1]
    /\ UNCHANGED <<sessVars, evalVars, hal>>

NextBal == BalancePanels

SpecBal == InitBal /\ [][NextBal]_vars

\* every panel of the tensors in bal has the same number of periods
SamePeriods ==
    LET p_obs == panel_periods(bal.panels, Len(bal.X[1]))
    IN \A i \in DOMAIN p_obs : p_obs[i] = p_obs[1]

AllOnes(mask) == \A n \in DOMAIN mask : \A q \in DOMAIN mask[n] : mask[n][q] = 1

\* C9: when every panel has the same number of periods, _balance_panels
\* returns X and y unchanged, with an all-ones mask of shape (N,P); and
\* balancing the output of a balancing step again returns the same tensors
\* and an all-ones mask.
C9_BalancedPanelsUnchanged ==
    [][(bal'.calls = bal.calls + 1 /\ (SamePeriods \/ bal.calls >= 1))
        => LET p_obs == panel_periods(bal.panels, Len(bal.X[1]))
           IN /\ bal'.X = bal.X
              /\ bal'.y = bal.y
              /\ bal'.panel_info = Ones(Len(p_obs), p_obs[1])
              /\ AllOnes(bal'.panel_info)]_vars

\* C9's case: panels of different lengths have been balanced, and the
\* padded result (with its choices) has been balanced again
C9_Witness ==
    /\ bal.calls = 2
    /\ ~AllOnes(bal.first)
    /\ AllOnes(bal.panel_info)
    /\ ~bal.y.none
    /\ Len(bal.X) = NSit * MaxP

\* the rows of the long format X that belong to the n-th panel (the panel
\* ids in increasing order), in the order they have in X
PeriodsOf(X, panels, n) ==
    LET J == Len(X[1])
        ids == SortedSeq(Range(panels))
    IN Where([t \in DOMAIN X |-> panels[(t - 1) * J + 1] = ids[n]], TRUE)

\* C13: when the panels have different numbers of periods, _balance_panels
\* returns N*P rows (P the largest number of periods); in the block of the
\* n-th panel, which has p_n periods, the first p_n rows are the panel's
\* periods in their order (in X and in y), the other P - p_n rows are zero
\* in X and in y, and panel_info[n] is 1 for the first p_n periods and 0
\* for the others.  Without y the returned y is None, and X and panel_info
\* are what they are with a y.
C13_UnbalancedPanelsPadded ==
    [][(bal'.calls = bal.calls + 1 /\ ~SamePeriods)
        => LET J == Len(bal.X[1])
               K == Len(bal.X[1][1])
               p_obs == panel_periods(bal.panels, J)
               N == Len(p_obs)
               P == Max(Range(p_obs))
               some_y == Some([shape |-> <<Len(bal.X), J>>,
                               rows |-> [t \in DOMAIN bal.X |->
                                           [j \in 1..J |-> 1]]])
               with_y == balance_panels(bal.X, some_y, bal.panels)
           IN /\ Len(bal'.X) = N * P
              /\ Len(bal'.panel_info) = N
              /\ \A n \in 1..N :
                   /\ Len(bal'.panel_info[n]) = P
                   /\ \A q \in 1..P :
                        LET row == (n - 1) * P + q
                            periods == PeriodsOf(bal.X, bal.panels, n)
                        IN IF q <= p_obs[n]
                           THEN /\ bal'.panel_info[n][q] = 1
                                /\ bal'.X[row] = bal.X[periods[q]]
                                /\ ~bal.y.none =>
                                     bal'.y.val.rows[row]
                                         = bal.y.val.rows[periods[q]]
                           ELSE /\ bal'.panel_info[n][q] = 0
                                /\ bal'.X[row] = Zeros(J, K)
                                /\ ~bal.y.none =>
                                     bal'.y.val.rows[row] = [j \in 1..J |-> 0]
              /\ ~bal.y.none =>
                   /\ ~bal'.y.none
                   /\ Len(bal'.y.val.rows) = N * P
              /\ bal.y.none =>
                   /\ bal'.y = None
                   /\ bal'.X = with_y.X
                   /\ bal'.panel_info = with_y.panel_info]_vars

\* C13's case: panels of which the first is the shortest have been
\* balanced without y: the block of the first panel ends with a zero row,
\* the block of the last panel has none
C13_Witness ==
    /\ bal.calls = 1
    /\ bal.y.none
    /\ Len(bal.X) = NSit * MaxP
    /\ bal.panel_info[1][MaxP] = 0
    /\ bal.X[MaxP] = Zeros(NAlts, Len(EvalNames))
    /\ bal.X[1] # Zeros(NAlts, Len(EvalNames))
    /\ AllOnes(<<bal.panel_info[NSit]>>)

-----------------------------------------------------------------------------
(* The evaluator.  self is passed as its fields _rvidx and _rvdist.  An
   operator that writes into an array it is given returns that array as it
   is after the call, next to its result. *)

\* _apply_distribution: applied in place to betas_random (N,Kr,R)
apply_distribution(betas_random, _rvdist) ==
    [n \in DOMAIN betas_random |->
        [k \in DOMAIN betas_random[n] |->
            [r \in DOMAIN betas_random[n][k] |->
                LET v == betas_random[n][k][r]
                IN IF _rvdist[k] = "ln" THEN ExpZero(v)
                   ELSE IF _rvdist[k] = "tn"
                   THEN v * (IF v > 0 THEN 1 ELSE 0)
                   ELSE v]]]

\* _transform_betas writing mean + sd*draws into the draws array itself
transform_betas_in_place(betas, draws, _rvidx, _rvdist) ==
    LET s == betas_split(betas, _rvidx)
        betas_random ==
            [n \in DOMAIN draws |-> [k \in DOMAIN draws[n] |->
                [r \in DOMAIN draws[n][k] |->
                    s.br_mean[k] + draws[n][k][r] * s.br_sd[k]]]]
    IN [betas_fixed |-> s.betas_fixed,
        betas_random |-> apply_distribution(betas_random, _rvdist),
        draws |-> apply_distribution(betas_random, _rvdist)]

\* _transform_betas: betas_fixed and betas_random; betas_random is a new
\* array (line 526), draws is as it was.
transform_betas(betas, draws, _rvidx, _rvdist) ==
    LET s == betas_split(betas, _rvidx)
        betas_random ==
            [n \in DOMAIN draws |-> [k \in DOMAIN draws[n] |->
                [r \in DOMAIN draws[n][k] |->
                    s.br_mean[k] + draws[n][k][r] * s.br_sd[k]]]]
    IN [betas_fixed |-> s.betas_fixed,
        betas_random |-> apply_distribution(betas_random, _rvdist),
        draws |-> draws]

\* lines 378 to 386: V (N,P,J,R), the utilities with their ceiling
utilities(Bf, Br, X, R, _rvidx) ==
    [n \in DOMAIN X |-> [q \in DOMAIN X[n] |-> [j \in DOMAIN X[n][q] |->
        [r \in 1..R |->
            LET Xf == BoolIndex(X[n][q][j], Not(_rvidx))
                Xr == BoolIndex(X[n][q][j], _rvidx)
                v == SumInt([a \in DOMAIN Xf |-> Xf[a] * Bf[a]])
                       + SumInt([k \in DOMAIN Xr |-> Xr[k] * Br[n][k][r]])
            IN IF v > MAX_COMP_EXP THEN MAX_COMP_EXP ELSE v]]]]

\* lines 387 to 390: eV (N,P,J,R)
exp_utilities(V, avail) ==
    [n \in DOMAIN V |-> [q \in DOMAIN V[n] |-> [j \in DOMAIN V[n][q] |->
        [r \in DOMAIN V[n][q][j] |->
            IF avail.none THEN Exp(V[n][q][j][r])
            ELSE EMul(Exp(V[n][q][j][r]), FromNat(avail.val[n][q][j]))]]]]

\* lines 392 to 394 without the replacement of line 394
sum_exp_utilities_no_floor(eV, R) ==
    [n \in DOMAIN eV |-> [q \in DOMAIN eV[n] |-> [r \in 1..R |->
        SumE([j \in DOMAIN eV[n][q] |-> eV[n][q][j][r]])]]]

\* lines 392 to 394: sumeV (N,P,R), a zero replaced by MIN_COMP_ZERO
sum_exp_utilities(eV, R) ==
    [n \in DOMAIN eV |-> [q \in DOMAIN eV[n] |-> [r \in 1..R |->
        LET sum == SumE([j \in DOMAIN eV[n][q] |-> eV[n][q][j][r]])
        IN IF sum = EmptyBag THEN MIN_COMP_ZERO ELSE sum]]]

\* line 395: p = eV/sumeV (N,P,J,R)
quotients(eV, sumeV) ==
    [n \in DOMAIN eV |-> [q \in DOMAIN eV[n] |-> [j \in DOMAIN eV[n][q] |->
        [r \in DOMAIN eV[n][q][j] |->
            QDiv(eV[n][q][j][r], sumeV[n][q][r])]]]]

\* _compute_probabilities up to line 395: p = eV/sumeV (N,P,J,R); next to
\* it the denominator sumeV (N,P,R) after line 394, and draws as the call
\* leaves it
logit_probabilities(betas, X, draws, avail, _rvidx, _rvdist) ==
    LET tb == transform_betas(betas, draws, _rvidx, _rvdist)
        R == Len(draws[1][1])
        eV == exp_utilities(
                  utilities(tb.betas_fixed, tb.betas_random, X, R, _rvidx),
                  avail)
        sumeV == sum_exp_utilities(eV, R)
    IN [p |-> quotients(eV, sumeV), sumeV |-> sumeV, draws |-> tb.draws,
        Br |-> tb.betas_random]

\* line 396 left out: p as it is
times_panel_info_skipped(p, panel_info) == p

\* line 396: p*panel_info[:, :, None, None]
times_panel_info(p, panel_info) ==
    [n \in DOMAIN p |-> [q \in DOMAIN p[n] |-> [j \in DOMAIN p[n][q] |->
        [r \in DOMAIN p[n][q][j] |->
            QDiv(EMul(p[n][q][j][r].n, FromNat(panel_info[n][q])),
                 p[n][q][j][r].d)]]]]

\* _compute_probabilities without the product with panel_info of line 396
compute_probabilities_no_panel_mask(betas, X, panel_info, draws, avail, _rvidx, _rvdist) ==
    logit_probabilities(betas, X, draws, avail, _rvidx, _rvdist)

\* _compute_probabilities: p (N,P,J,R) after line 396, with sumeV and
\* draws as above
compute_probabilities(betas, X, panel_info, draws, avail, _rvidx, _rvdist) ==
    LET lp == logit_probabilities(betas, X, draws, avail, _rvidx, _rvdist)
    IN [p |-> times_panel_info(lp.p, panel_info),
        sumeV |-> lp.sumeV,
        draws |-> lp.draws,
        Br |-> lp.Br]

\* the product over the periods (line 456), a zero replaced by
\* MIN_COMP_ZERO (line 458)
product_over_periods(prob) ==
    [n \in DOMAIN prob |-> [r \in DOMAIN prob[n][1] |->
        LET prod == ProdQ([q \in DOMAIN prob[n] |-> prob[n][q][r]])
        IN IF QIsZero(prod) THEN QDiv(MIN_COMP_ZERO, FromNat(1)) ELSE prod]]

\* line 455: prob[panel_info == 0, :] = 1
reset_padded(prob, panel_info) ==
    [n \in DOMAIN prob |-> [q \in DOMAIN prob[n] |->
        IF panel_info[n][q] = 0 THEN [r \in DOMAIN prob[n][q] |-> QOne]
        ELSE prob[n][q]]]

\* _prob_product_across_panels without the reset of line 455
prob_product_across_panels_no_reset(prob, panel_info) ==
    [ret |-> product_over_periods(prob), prob |-> prob]

\* _prob_product_across_panels(prob, panel_info), prob (N,P,R): the
\* product over the periods (N,R), and prob as line 455 leaves it
prob_product_across_panels(prob, panel_info) ==
    LET prob1 == IF ~AllOnes(panel_info) THEN reset_padded(prob, panel_info)
                 ELSE prob
    IN [ret |-> product_over_periods(prob1), prob |-> prob1]

\* lines 509 to 513 with the derivative of a truncated-normal coefficient
\* 1 where the coefficient is not negative
derivatives_tn_nonnegative(betas_random, _rvdist) ==
    [n \in DOMAIN betas_random |-> [k \in DOMAIN betas_random[n] |->
        [r \in DOMAIN betas_random[n][k] |->
            IF _rvdist[k] = "ln" THEN betas_random[n][k][r]
            ELSE IF _rvdist[k] = "tn"
            THEN 1 * (IF betas_random[n][k][r] >= 0 THEN 1 ELSE 0)
            ELSE 1]]]

\* lines 509 to 513: der (N,Kr,R) from the transformed coefficients
derivatives(betas_random, _rvdist) ==
    [n \in DOMAIN betas_random |-> [k \in DOMAIN betas_random[n] |->
        [r \in DOMAIN betas_random[n][k] |->
            IF _rvdist[k] = "ln" THEN betas_random[n][k][r]
            ELSE IF _rvdist[k] = "tn"
            THEN 1 * (IF betas_random[n][k][r] > 0 THEN 1 ELSE 0)
            ELSE 1]]]

\* _compute_derivatives: der (N,Kr,R), and draws as the call leaves it
compute_derivatives(betas, draws, _rvidx, _rvdist) ==
    IF Range(_rvdist) \cap {"ln", "tn"} # {}
    THEN LET tb == transform_betas(betas, draws, _rvidx, _rvdist)
         IN [der |-> derivatives(tb.betas_random, _rvdist),
             draws |-> tb.draws]
    ELSE [der |-> [n \in DOMAIN draws |-> [k \in DOMAIN draws[n] |->
                     [r \in DOMAIN draws[n][k] |-> 1]]],
          draws |-> draws]

\* _concat_gradients over one row of gr_f, gr_b and gr_w
concat_gradients(gr_f, gr_b, gr_w, _rvidx) ==
    LET idx == Where(Not(_rvidx), TRUE) \o Where(_rvidx, TRUE)
        cat == gr_f \o gr_b
        gr_fb == [i \in DOMAIN idx |-> cat[idx[i]]]
    IN gr_fb \o gr_w

\* line 410: (y*p).sum(axis=2), (N,P,R)
chosen_probabilities(y, p) ==
    [n \in DOMAIN p |-> [q \in DOMAIN p[n] |-> [r \in DOMAIN p[n][q][1] |->
        SumQ([j \in DOMAIN p[n][q] |->
                QDiv(EMul(FromNat(y[n][q][j]), p[n][q][j][r].n),
                     p[n][q][j][r].d)])]]]

\* line 414: lik = pch.mean(axis=1), (N,)
mean_over_draws(pch) ==
    [n \in DOMAIN pch |->
        LET sum == SumQ(pch[n])
        IN QDiv(sum.n, EMul(sum.d, FromNat(Len(pch[n]))))]

\* lines 415 to 418 and 446: the value -loglik, kept as the terms of its
\* sum: the weight and the lik[n] whose logarithm is taken
minus_loglik(lik, weights) ==
    [n \in DOMAIN lik |->
        [log_of |-> lik[n],
         weight |-> IF weights.none THEN 1 ELSE weights.val[n]]]

\* lines 421 to 433: an entry of gr_f, gr_b and gr_w is kept as what it
\* is the derivative for: the part of betas (fixed coefficient, mean or
\* standard deviation of a random one) and the column of X that the einsum
\* over Xf or Xr has run over
gradient_parts(_rvidx) ==
    LET cols == [k \in DOMAIN _rvidx |-> k]
        Xf == BoolIndex(cols, Not(_rvidx))
        Xr == BoolIndex(cols, _rvidx)
    IN [gr_f |-> [a \in DOMAIN Xf |-> [part |-> "fixed", col |-> Xf[a]]],
        gr_b |-> [k \in DOMAIN Xr |-> [part |-> "mean", col |-> Xr[k]]],
        gr_w |-> [k \in DOMAIN Xr |-> [part |-> "sd", col |-> Xr[k]]]]

\* line 424: ymp = y - p (N,P,J,R).  A residual is kept as the pair of the
\* y and the p it is the difference of; it is zero when p is y.
residuals(y, p) ==
    [n \in DOMAIN p |-> [q \in DOMAIN p[n] |-> [j \in DOMAIN p[n][q] |->
        [r \in DOMAIN p[n][q][j] |->
            [y |-> y[n][q][j], p |-> p[n][q][j][r]]]]]]
ResidualIsZero(e) == QEq(e.p, QDiv(FromNat(e.y), FromNat(1)))

\* np.einsum('npjr,npjk -> nkr', ymp, X) at one n, k and r: the sum over
\* the periods and the alternatives of ymp*X, kept as its terms that are
\* not zero, in the order of the sum
einsum_npj(ymp_n, X_n, k, r) ==
    LET J == Len(X_n[1])
        terms == [i \in 1..(Len(X_n) * J) |->
                    [ymp |-> ymp_n[((i - 1) \div J) + 1][((i - 1) % J) + 1][r],
                     x |-> X_n[((i - 1) \div J) + 1][((i - 1) % J) + 1][k]]]
    IN BoolIndex(terms, [i \in DOMAIN terms |->
                            terms[i].x # 0 /\ ~ResidualIsZero(terms[i].ymp)])

\* lines 426 to 433 at one n and one column k of X: the einsum times the
\* factor times[r] (1, der or der*draws) and pch[n,r], averaged over the
\* draws and divided by lik[n].  The mean is kept as its terms; a term
\* that is zero is kept as an empty sum times 0.
gradient_entry(ymp_n, X_n, k, times, pch_n, lik_n) ==
    [mean |-> [r \in DOMAIN pch_n |->
                 LET sum == einsum_npj(ymp_n, X_n, k, r)
                 IN IF times[r] = 0 \/ sum = <<>>
                    THEN [sum |-> <<>>, times |-> 0, pch |-> QZero]
                    ELSE [sum |-> sum, times |-> times[r], pch |-> pch_n[r]]],
     by |-> lik_n]

\* lines 421 to 437: grad (N,K+Kr) before it is summed over the situations,
\* from the locals of _loglik_gradient
gradient_rows(ymp, X, der, draws, pch, lik, weights, _rvidx) ==
    LET Wf == Where(Not(_rvidx), TRUE)
        Wr == Where(_rvidx, TRUE)
    IN [n \in DOMAIN X |->
          LET gr_f == [a \in DOMAIN Wf |->
                         gradient_entry(ymp[n], X[n], Wf[a],
                                        [r \in DOMAIN pch[n] |-> 1],
                                        pch[n], lik[n])]
              gr_b == [k \in DOMAIN Wr |->
                         gradient_entry(ymp[n], X[n], Wr[k], der[n][k],
                                        pch[n], lik[n])]
              gr_w == [k \in DOMAIN Wr |->
                         gradient_entry(ymp[n], X[n], Wr[k],
                                        [r \in DOMAIN pch[n] |->
                                            der[n][k][r] * draws[n][k][r]],
                                        pch[n], lik[n])]
              row == concat_gradients(gr_f, gr_b, gr_w, _rvidx)
          IN [i \in DOMAIN row |->
                [value |-> row[i],
                 weight |-> IF weights.none THEN 1 ELSE weights.val[n]]]]

\* _loglik_gradient: the value and the gradient it returns, its locals, and
\* its arguments as the call leaves them
loglik_gradient(betas, X, y, panel_info, draws, weights, avail, _rvidx, _rvdist) ==
    LET cp == compute_probabilities(betas, X, panel_info, draws, avail,
                                    _rvidx, _rvdist)
        pp == prob_product_across_panels(chosen_probabilities(y, cp.p),
                                         panel_info)
        lik == mean_over_draws(pp.ret)
        gr == gradient_parts(_rvidx)
        cd == compute_derivatives(betas, cp.draws, _rvidx, _rvdist)
    IN [value |-> minus_loglik(lik, weights),
        grad |-> concat_gradients(gr.gr_f, gr.gr_b, gr.gr_w, _rvidx),
        p |-> cp.p, sumeV |-> cp.sumeV, pch |-> pp.ret, lik |-> lik,
        Br |-> cp.Br, der |-> cd.der,
        betas |-> betas, X |-> X, y |-> y, panel_info |-> panel_info,
        draws |-> cd.draws, weights |-> weights, avail |-> avail]

-----------------------------------------------------------------------------
(* The evaluator under the minimizer *)

\* _generate_draws: (N,Kr,R).  The Halton or random numbers are stood for
\* by the values -1, 0 and 1.
generate_draws(N, Kr, R) ==
    [n \in 1..N |-> [k \in 1..Kr |-> [r \in 1..R |-> ((n + k + r) % 3) - 1]]]

\* _setup_input_data, lines 311 to 337: from the long format to the
\* arguments of the evaluator.  panels, weights and avail are optional;
\* avail is (T,J) in the long format.
setup_arrays(X, y, panels, weights, avail, Kr, R) ==
    LET b == IF panels.none
             THEN [X |-> X, y |-> Some(y),
                   panel_info |-> [n \in DOMAIN X |-> <<1>>]]
             ELSE balance_panels(X, Some(y), panels.val)
        N == Len(b.panel_info)
        P == Len(b.panel_info[1])
    IN [X |-> [n \in 1..N |-> [q \in 1..P |-> b.X[(n - 1) * P + q]]],
        y |-> [n \in 1..N |-> [q \in 1..P |-> b.y.val.rows[(n - 1) * P + q]]],
        panel_info |-> b.panel_info,
        draws |-> generate_draws(N, Kr, R),
        weights |-> IF weights.none THEN None
                    ELSE Some([n \in 1..N |->
                                 (weights.val[n] * N)
                                     \div SumInt(weights.val)]),
        avail |-> IF avail.none THEN None
                  ELSE Some([n \in 1..N |-> [q \in 1..P |->
                               avail.val[(n - 1) * P + q]]])]

\* how often the minimizer calls the evaluator
MaxEval == 2

\* availability in the long format: absent, everything available, the
\* first alternative never available, nothing available in the first row
AvailOptions == {"None", "all", "notfirst", "nothing"}
LongAvail(d) ==
    LET rows == LongRows(PanelLengths(d.panel), 1)
    IN IF d.avail = "None" THEN None
       ELSE Some([t \in DOMAIN rows |-> [j \in 1..NAlts |->
                    IF d.avail = "notfirst" /\ j = 1 THEN 0
                    ELSE IF d.avail = "nothing" /\ t = 1 THEN 0
                    ELSE 1]])

\* the declarations of random variables a fit accepts for these columns,
\* and declarations with a truncated-normal, a uniform and a triangular
\* coefficient
EvalRandvars ==
    {rv \in RandvarsArgs : model_specific_validations(rv, EvalNames) = "ok"}
        \cup {Some(<<[name |-> "a", dist |-> "tn"],
                     [name |-> "b", dist |-> "ln"]>>),
              Some(<<[name |-> "c", dist |-> "u"],
                     [name |-> "a", dist |-> "t"]>>),
              Some(<<[name |-> "b", dist |-> "tn"]>>)}

\* The data and the declaration a fit is called with: every kind of data
\* with one declaration, and every declaration with one kind of data.
\* Availability goes with panels of one length only: avail.reshape(N,P,J)
\* of line 334 has no other input.
EvalInputs ==
    {d \in [rv : EvalRandvars, la : Levels, lb : Levels, c : {0},
            panel : PanelOptions, avail : AvailOptions, weights : BOOLEAN] :
        /\ d.avail # "None" => d.panel \in {"none", "balanced"}
        /\ \/ /\ d.rv = Some(<<[name |-> "b", dist |-> "n"]>>)
              /\ ~d.weights
           \/ /\ d.la = 0 /\ d.lb = 0
              /\ d.panel = "longfirst" /\ d.avail = "None"}

\* the optimizer's points: K + Kr entries
BetasMenu(n) ==
    {[i \in 1..n |-> 1], [i \in 1..n |-> 0],
     [i \in 1..n |-> IF i = 1 THEN -1 ELSE 1],
     [i \in 1..n |-> IF i = 1 THEN -1 ELSE 0]}

\* every realization of a log-normal coefficient is 0 before the
\* exponential is taken
LnExact(betas) ==
    LET s == betas_split(betas, rvidx.val)
    IN \A n \in DOMAIN args.draws : \A k \in DOMAIN args.draws[n] :
         \A r \in DOMAIN args.draws[n][k] :
            rvdist.val[k] = "ln"
                => s.br_mean[k] + args.draws[n][k][r] * s.br_sd[k] = 0

\* fit has set up its input and starts the minimizer
InitEval ==
    /\ coeff_names = None
    /\ coeff_ = None
    /\ call = [NoCall EXCEPT !.op = "minimize"]
    /\ xk = <<>>
    /\ total_fun_eval = 0
    /\ ret = <<>>
    /\ locals = <<>>
    /\ bal = <<>>
    /\ hal = <<>>
    /\ \E d \in EvalInputs :
          LET info == setup_randvars_info(d.rv, EvalNames)
          IN /\ randvars = info.randvars
             /\ rvidx = info.rvidx
             /\ rvdist = info.rvdist
             /\ args = setup_arrays(
                    LongX(d), LongY(d),
                    IF d.panel = "none" THEN None
                    ELSE Some(LongPanels(PanelLengths(d.panel), NAlts, 1)),
                    IF d.weights THEN Some([n \in 1..NSit |-> 2]) ELSE None,
                    LongAvail(d), Len(d.rv.val), NDraws)

\* the minimizer calls self._loglik_gradient(betas, *args)
LoglikGradient(betas) ==
    /\ call.op = "minimize"
    /\ total_fun_eval < MaxEval
    /\ LnExact(betas)
    /\ \E r \in {loglik_gradient(betas, args.X, args.y, args.panel_info,
                                   args.draws, args.weights, args.avail,
                                   rvidx.val, rvdist.val)} :
          /\ args' = [X |-> r.X, y |-> r.y, panel_info |-> r.panel_info,
                      draws |-> r.draws, weights |-> r.weights,
                      avail |-> r.avail]
          /\ xk' = [passed |-> betas, after |-> r.betas,
                     repeated |-> total_fun_eval > 0 /\ betas = xk.passed]
          /\ ret' = [value |-> r.value, grad |-> r.grad]
          /\ \E g \in {gradient_rows(residuals(r.y, r.p), r.X, r.der,
                                      r.draws, r.pch, r.lik, r.weights,
                                      rvidx.val)} :
                locals' = [p |-> r.p, sumeV |-> r.sumeV, pch |-> r.pch,
                           lik |-> r.lik, Br |-> r.Br, der |-> r.der,
                           grad_n |-> g]
    /\ total_fun_eval' = total_fun_eval + 1
    /\ UNCHANGED <<sessVars, bal, hal>>

NextEval ==
    \E betas \in BetasMenu(Len(rvidx.val) + Len(rvdist.val)) :
        LoglikGradient(betas)

SpecEval == InitEval /\ [][NextEval]_vars

-----------------------------------------------------------------------------
(* Claims about the evaluator *)

Evaluated == total_fun_eval > 0

\* the number of random columns
Kr_ == Len(rvdist.val)

\* C1, as stated: the gradient has K + Kr entries; entry i <= K is the
\* derivative for the coefficient of column i, which _transform_betas reads
\* as a fixed coefficient if column i is fixed and as the mean of a random
\* one if it is random; entry K + i is the derivative for the standard
\* deviation of the i-th random coefficient.
C1_GradientFollowsBetas ==
    Evaluated =>
        LET K == Len(rvidx.val)
            at == ReadAt(K + Kr_, rvidx.val)
            Wf == Where(Not(rvidx.val), TRUE)
            Wr == Where(rvidx.val, TRUE)
        IN /\ Len(ret.grad) = K + Kr_
           /\ Len(ret.grad) = Len(xk.passed)
           /\ \A a \in DOMAIN Wf :
                ret.grad[at.betas_fixed[a]] = [part |-> "fixed", col |-> Wf[a]]
           /\ \A k \in DOMAIN Wr :
                /\ ret.grad[at.br_mean[k]] = [part |-> "mean", col |-> Wr[k]]
                /\ ret.grad[at.br_sd[k]] = [part |-> "sd", col |-> Wr[k]]

\* period q of situation n is valid and has an available alternative
HasAvailable(n, q) ==
    /\ args.panel_info[n][q] = 1
    /\ \/ args.avail.none
       \/ \E j \in DOMAIN args.avail.val[n][q] : args.avail.val[n][q][j] = 1

\* C6, as stated: in p, for every situation n, valid period q with an
\* available alternative, and draw r, the probabilities of the J
\* alternatives sum to 1.
C6_ProbabilitiesSumToOne ==
    Evaluated =>
        \A n \in DOMAIN locals.p : \A q \in DOMAIN locals.p[n] :
            HasAvailable(n, q) =>
                \A r \in 1..NDraws :
                    QEq(SumQ([j \in DOMAIN locals.p[n][q] |->
                                locals.p[n][q][j][r]]), QOne)

\* C7: p[n,q,j,r] is exactly 0 for every draw r whenever alternative j is
\* unavailable at (n,q) or period q of situation n is padding, whatever the
\* utility is (the ceiling included).
C7_ZeroWhereUnavailableOrPadded ==
    Evaluated =>
        \A n \in DOMAIN locals.p : \A q \in DOMAIN locals.p[n] :
            \A j \in DOMAIN locals.p[n][q] :
                (\/ args.panel_info[n][q] = 0
                 \/ (~args.avail.none /\ args.avail.val[n][q][j] = 0))
                    => \A r \in 1..NDraws : QIsZero(locals.p[n][q][j][r])

\* the utilities of the last call
LastV ==
    LET tb == transform_betas(xk.passed, args.draws, rvidx.val, rvdist.val)
    IN utilities(tb.betas_fixed, tb.betas_random, args.X, NDraws, rvidx.val)

\* C7's case: an unavailable alternative whose utility is at the ceiling,
\* next to an available one
C7_Witness ==
    /\ Evaluated
    /\ ~args.avail.none
    /\ \E n \in DOMAIN args.X : \E q \in DOMAIN args.X[n] :
          /\ \E j \in DOMAIN args.X[n][q] :
                /\ args.avail.val[n][q][j] = 0
                /\ \E r \in 1..NDraws : LastV[n][q][j][r] = MAX_COMP_EXP
          /\ \E j \in DOMAIN args.X[n][q] :
                /\ args.avail.val[n][q][j] = 1
                /\ \E r \in 1..NDraws : ~QIsZero(locals.p[n][q][j][r])

\* the probabilities of the chosen alternatives of the last call, (N,P,R)
LastChosen == chosen_probabilities(args.y, locals.p)

\* the product of the chosen-alternative probabilities of the valid
\* periods of situation n, for draw r
ValidProduct(n, r) ==
    LET ch == LastChosen
        valid == Where([q \in DOMAIN ch[n] |-> args.panel_info[n][q] = 1],
                       TRUE)
    IN ProdQ([i \in DOMAIN valid |-> ch[n][valid[i]][r]])

\* how many padded periods are appended
MaxPad == 2

\* the chosen-alternative probabilities and the mask with m more padded
\* periods in every panel
Padded(ch, m) ==
    [n \in DOMAIN ch |-> ch[n] \o [i \in 1..m |-> [r \in 1..NDraws |-> QZero]]]
PaddedMask(mask, m) == [n \in DOMAIN mask |-> mask[n] \o [i \in 1..m |-> 0]]

\* with m more padded periods the aggregated probabilities are the same
SameWhenPadded ==
    \A m \in 1..MaxPad :
        prob_product_across_panels(Padded(LastChosen, m),
                                   PaddedMask(args.panel_info, m)).ret
            = locals.pch

\* C8, as stated: the panel-aggregated probability of a situation equals
\* the product of the chosen-alternative probabilities of its valid
\* periods only, and appending padded periods does not change it.
C8_ProductOfValidPeriods ==
    Evaluated =>
        /\ \A n \in DOMAIN locals.pch : \A r \in 1..NDraws :
              QEq(locals.pch[n][r], ValidProduct(n, r))
        /\ SameWhenPadded

\* C8, amended: the panel-aggregated probability of a situation equals the
\* product of the chosen-alternative probabilities of its valid periods
\* only, or MIN_COMP_ZERO when that product is exactly zero; appending
\* padded periods does not change it.
C8_ProductOfValidPeriodsOrFloor ==
    Evaluated =>
        /\ \A n \in DOMAIN locals.pch : \A r \in 1..NDraws :
              IF QIsZero(ValidProduct(n, r))
              THEN locals.pch[n][r] = QDiv(MIN_COMP_ZERO, FromNat(1))
              ELSE QEq(locals.pch[n][r], ValidProduct(n, r))
        /\ SameWhenPadded

\* C8's case: a panel with a padded period whose valid periods have a
\* product of exactly zero, which the call has replaced by MIN_COMP_ZERO
C8_Witness ==
    /\ Evaluated
    /\ \E n \in DOMAIN args.panel_info :
          /\ \E q \in DOMAIN args.panel_info[n] : args.panel_info[n][q] = 0
          /\ \E r \in 1..NDraws :
                /\ QIsZero(ValidProduct(n, r))
                /\ locals.pch[n][r] = QDiv(MIN_COMP_ZERO, FromNat(1))

\* C10: every call of _loglik_gradient increases total_fun_eval by exactly
\* 1 and leaves X, y, panel_info, draws, weights, avail, the caller's
\* betas, _rvidx and _rvdist as they were; a call with the same betas as
\* the call before returns the same value and gradient.
C10_CallsAreIndependent ==
    [][/\ total_fun_eval' = total_fun_eval + 1
       /\ args' = args
       /\ xk'.after = xk'.passed
       /\ rvidx' = rvidx
       /\ rvdist' = rvdist
       /\ (Evaluated /\ xk'.passed = xk.passed) => ret' = ret]_vars

\* C10's case: two calls with the same betas, on panels with a padded
\* period (line 455 writes into its argument) and with a log-normal or
\* truncated-normal coefficient (_apply_distribution writes into its
\* argument)
C10_Witness ==
    /\ total_fun_eval >= 2
    /\ xk.repeated
    /\ ~AllOnes(args.panel_info)
    /\ \E k \in DOMAIN rvdist.val : rvdist.val[k] \in {"ln", "tn"}

\* C11: whatever the availability mask, the validity mask and the choices
\* are, the softmax denominator sumeV of _compute_probabilities is never
\* zero, no probability has a zero denominator, and lik[n] is strictly
\* positive for every situation n, so that the logarithm of line 415 is
\* taken of, and the division of lines 431 to 433 is by, a positive number.
C11_DenominatorsNeverZero ==
    Evaluated =>
        /\ \A n \in DOMAIN locals.sumeV : \A q \in DOMAIN locals.sumeV[n] :
              \A r \in DOMAIN locals.sumeV[n][q] :
                 locals.sumeV[n][q][r] # EmptyBag
        /\ \A n \in DOMAIN locals.p : \A q \in DOMAIN locals.p[n] :
              \A j \in DOMAIN locals.p[n][q] :
                 \A r \in DOMAIN locals.p[n][q][j] :
                    locals.p[n][q][j][r].d # EmptyBag
        /\ \A n \in DOMAIN locals.lik :
              /\ ~QIsZero(locals.lik[n])
              /\ locals.lik[n].d # EmptyBag
              /\ ret.value[n].log_of = locals.lik[n]

\* C11's case: a period in which no alternative is available, so that the
\* sum of line 392 is zero and the chosen alternative is unavailable, in a
\* situation whose likelihood is positive all the same
C11_Witness ==
    /\ Evaluated
    /\ ~args.avail.none
    /\ \E n \in DOMAIN args.X : \E q \in DOMAIN args.X[n] :
          /\ args.panel_info[n][q] = 1
          /\ \A j \in DOMAIN args.X[n][q] : args.avail.val[n][q][j] = 0
          /\ \E j \in DOMAIN args.X[n][q] : args.y[n][q][j] = 1
          /\ \A r \in 1..NDraws : locals.sumeV[n][q][r] = MIN_COMP_ZERO
          /\ locals.lik[n].n = EMul(MIN_COMP_ZERO, FromNat(NDraws))

\* the realization mean_k + sd_k * draws[n,k,r] of the k-th random
\* coefficient before its distribution is applied: the mean is the entry of
\* betas at the k-th random column, the standard deviation entry K + k
Realization(n, k, r) ==
    LET W == Where(rvidx.val, TRUE)
    IN xk.passed[W[k]] + xk.passed[Len(rvidx.val) + k] * args.draws[n][k][r]

\* C14: for every individual n, random coefficient k and draw r, the
\* coefficient _transform_betas returns is T_k(mean_k + sd_k * draws[n,k,r]):
\* the realization itself for normal, uniform and triangular, its
\* exponential for log-normal (1 for the realization 0), and the realization
\* if it is positive and 0 otherwise for truncated-normal; the derivative
\* factor of a truncated-normal coefficient is 1 where the realization is
\* positive and 0 elsewhere.
C14_TransformedCoefficients ==
    Evaluated =>
        /\ Len(locals.Br) = Len(args.draws)
        /\ \A n \in DOMAIN args.draws :
             /\ Len(locals.Br[n]) = Kr_
             /\ \A k \in 1..Kr_ : \A r \in 1..NDraws :
                  LET v == Realization(n, k, r)
                      dist == rvdist.val[k]
                  IN /\ dist \in {"n", "u", "t"} => locals.Br[n][k][r] = v
                     /\ (dist = "ln" /\ v = 0) => locals.Br[n][k][r] = 1
                     /\ dist = "tn" =>
                          /\ locals.Br[n][k][r] = IF v > 0 THEN v ELSE 0
                          /\ locals.der[n][k][r] = IF v > 0 THEN 1 ELSE 0

\* C14's case: a truncated-normal coefficient with a negative realization,
\* next to a log-normal coefficient with mean 0 and standard deviation 0
C14_Witness ==
    /\ Evaluated
    /\ \E k \in 1..Kr_ :
          /\ rvdist.val[k] = "tn"
          /\ \E n \in DOMAIN args.draws : \E r \in 1..NDraws :
                /\ Realization(n, k, r) < 0
                /\ locals.Br[n][k][r] = 0
                /\ locals.der[n][k][r] = 0
    /\ \E k \in 1..Kr_ :
          /\ rvdist.val[k] = "ln"
          /\ xk.passed[Where(rvidx.val, TRUE)[k]] = 0
          /\ xk.passed[Len(rvidx.val) + k] = 0
          /\ \A n \in DOMAIN args.draws : \A r \in 1..NDraws :
                locals.Br[n][k][r] = 1

\* the valid periods of situation n
ValidPeriods(n) ==
    Where([q \in DOMAIN args.panel_info[n] |-> args.panel_info[n][q] = 1],
          TRUE)

\* _loglik_gradient on situation n alone, with its padded periods removed
WithoutPadding(n) ==
    LET valid == ValidPeriods(n)
    IN loglik_gradient(
           xk.passed,
           <<[i \in DOMAIN valid |-> args.X[n][valid[i]]]>>,
           <<[i \in DOMAIN valid |-> args.y[n][valid[i]]]>>,
           <<[i \in DOMAIN valid |-> 1]>>,
           <<args.draws[n]>>,
           IF args.weights.none THEN None
           ELSE Some(<<args.weights.val[n]>>),
           IF args.avail.none THEN None
           ELSE Some(<<[i \in DOMAIN valid |-> args.avail.val[n][valid[i]]]>>),
           rvidx.val, rvdist.val)

\* C15: for every padded period the residual y - p is 0 for every
\* alternative and draw, and what a panel with padded periods adds to the
\* negative log-likelihood and to the gradient is what _loglik_gradient
\* gives for the same panel with its padded periods removed.
C15_PaddingAddsNothing ==
    Evaluated =>
        \A n \in DOMAIN args.panel_info :
            (\E q \in DOMAIN args.panel_info[n] : args.panel_info[n][q] = 0)
            => /\ \A q \in DOMAIN args.panel_info[n] :
                    args.panel_info[n][q] = 0 =>
                        \A j \in DOMAIN args.y[n][q] : \A r \in 1..NDraws :
                            ResidualIsZero([y |-> args.y[n][q][j],
                                            p |-> locals.p[n][q][j][r]])
               /\ \A alone \in {WithoutPadding(n)} :
                     /\ QEq(ret.value[n].log_of, alone.value[1].log_of)
                     /\ ret.value[n].weight = alone.value[1].weight
                     /\ locals.grad_n[n]
                          = gradient_rows(residuals(alone.y, alone.p),
                                          alone.X, alone.der, alone.draws,
                                          alone.pch, alone.lik, alone.weights,
                                          rvidx.val)[1]

\* C15's case: a panel with a padded period whose valid periods give a
\* gradient that is not zero
C15_Witness ==
    /\ Evaluated
    /\ \E n \in DOMAIN args.panel_info :
          /\ \E q \in DOMAIN args.panel_info[n] : args.panel_info[n][q] = 0
          /\ \A part \in {"fixed", "mean", "sd"} :
                \E i \in DOMAIN locals.grad_n[n] :
                   /\ ret.grad[i].part = part
                   /\ \E r \in 1..NDraws :
                         locals.grad_n[n][i].value.mean[r].times # 0

-----------------------------------------------------------------------------
(* Halton draws.  An element of a Halton sequence is a fraction whose
   denominator is a power of the prime; it is kept as the pair of its
   numerator and denominator, and sums are exact. *)

\* line 557: the table of primes (it has no 67)
primes ==
    <<2, 3, 5, 7, 11, 13, 17, 19, 23, 29, 31, 37, 41, 43, 47,
      53, 59, 61, 71, 73, 79, 83, 89, 97, 101, 103, 107,
      109, 113, 127, 131, 137, 139, 149, 151, 157, 163, 167,
      173, 179, 181, 191, 193, 197, 199>>

\* line 562: drop=100
drop == 100

\* prime**t
RECURSIVE Pow(_, _)
Pow(b, e) == IF e = 0 THEN 1 ELSE b * Pow(b, e - 1)

\* fractions: a + b where the denominator of a divides that of b, a = b,
\* a < b
Frac(num, den) == [num |-> num, den |-> den]
FAdd(a, b) == Frac(a.num * (b.den \div a.den) + b.num, b.den)
FEq(a, b) == a.num * b.den = b.num * a.den
FLess(a, b) == a.num * b.den < b.num * a.den

\* np.tile(h, m), np.repeat(a, m) and np.append(a, b).  An array is passed
\* with its length.
np_tile(h, len_h, m) == [i \in 1..(len_h * m) |-> h[((i - 1) % len_h) + 1]]
np_repeat(a, len_a, m) == [i \in 1..(len_a * m) |-> a[((i - 1) \div m) + 1]]
np_append(a, len_a, b, len_b) ==
    [i \in 1..(len_a + len_b) |-> IF i <= len_a THEN a[i] ELSE b[i - len_a]]

\* How often the loop of halton_seq runs (lines 565 and 566): t when the
\* loop is left, from len(h) and t on.  Every round appends prime-1 arrays
\* as long as h to h (line 567).
RECURSIVE halton_rounds(_, _, _, _)
halton_rounds(len_h, t, length, prime) ==
    IF len_h < length + drop
    THEN halton_rounds(len_h + len_h * (prime - 1), t + 1, length, prime)
    ELSE t

\* h after round t of the loop (lines 567 and 568); h is prime**(t-1) long
\* when round t begins
RECURSIVE halton_h(_, _)
halton_h(t, prime) ==
    IF t = 0 THEN <<Frac(0, 1)>>
    ELSE LET len_h == Pow(prime, t - 1)
             h == halton_h(t - 1, prime)
             arange == [d \in 1..(prime - 1) |-> Frac(d, Pow(prime, t))]
             tiled == np_tile(h, len_h, prime - 1)
             repeated == np_repeat(arange, prime - 1, len_h)
             sum == [i \in 1..(len_h * (prime - 1)) |->
                        FAdd(tiled[i], repeated[i])]
         IN np_append(h, len_h, sum, len_h * (prime - 1))

\* h[lo:hi] of an array of length len_h
slice(h, len_h, lo, hi) ==
    LET stop == IF hi < len_h THEN hi ELSE len_h
    IN [i \in 1..(stop - lo) |-> h[lo + i]]

\* halton_seq with seq = h[:length], nothing dropped
halton_seq_no_drop(length, prime) ==
    LET t == halton_rounds(1, 0, length, prime)
    IN [seq |-> slice(halton_h(t, prime), Pow(prime, t), 0, length),
        t |-> t]

\* halton_seq(length, prime, shuffled=False, drop=100): the sequence it
\* returns, and t when it returns
halton_seq(length, prime) ==
    LET t == halton_rounds(1, 0, length, prime)
    IN [seq |-> slice(halton_h(t, prime), Pow(prime, t), drop,
                      length + drop),
        t |-> t]

\* seq.reshape(sample_size, n_draws)
reshape(seq, sample_size, n_draws) ==
    [n \in 1..sample_size |-> [r \in 1..n_draws |->
        seq[(n - 1) * n_draws + r]]]

\* lines 574 to 576: what halton_seq returns for the variables i, i+1, ...
\* n_vars-1 (i counts from 0, as range(n_vars) does)
RECURSIVE halton_seqs(_, _, _)
halton_seqs(length, i, n_vars) ==
    IF i >= n_vars THEN <<>>
    ELSE <<halton_seq(length, primes[(i % Len(primes)) + 1])>>
             \o halton_seqs(length, i + 1, n_vars)

\* lines 575 and 577: every sequence reshaped to (sample_size, n_draws),
\* and np.stack(draws, axis=1) of them
stack_reshaped(seqs, sample_size, n_draws) ==
    [n \in 1..sample_size |-> [k \in DOMAIN seqs |->
        reshape(seqs[k].seq, sample_size, n_draws)[n]]]

\* _get_halton_draws(sample_size, n_draws, n_vars): the draws
\* (sample_size, n_vars, n_draws), and what halton_seq returned for every
\* variable
get_halton_draws(sample_size, n_draws, n_vars) ==
    LET seqs == halton_seqs(sample_size * n_draws, 0, n_vars)
    IN [seqs |-> seqs, draws |-> stack_reshaped(seqs, sample_size, n_draws)]

\* the arguments of _get_halton_draws
MaxSample == 3
MaxHaltonDraws == 5
MaxVars == 46

InitHalton ==
    /\ randvars = None
    /\ rvidx = None
    /\ rvdist = None
    /\ coeff_names = None
    /\ coeff_ = None
    /\ call = NoCall
    /\ args = <<>>
    /\ xk = <<>>
    /\ total_fun_eval = 0
    /\ ret = <<>>
    /\ locals = <<>>
    /\ bal = <<>>
    /\ hal = [sample_size |-> 0, n_draws |-> 0, n_vars |-> 0,
              seqs |-> <<>>, draws |-> <<>>, calls |-> 0]

\* draws = self._get_halton_draws(sample_size, n_draws, len(self._rvdist))
GetHaltonDraws(sample_size, n_draws, n_vars) ==
    /\ hal.calls = 0
    /\ \E r \in {get_halton_draws(sample_size, n_draws, n_vars)} :
          hal' = [sample_size |-> sample_size, n_draws |-> n_draws,
                  n_vars |-> n_vars, seqs |-> r.seqs, draws |-> r.draws,
                  calls |-> 1]
    /\ UNCHANGED <<sessVars, evalVars, bal>>

NextHalton ==
    \E sample_size \in 1..MaxSample, n_draws \in 1..MaxHaltonDraws,
       n_vars \in 1..MaxVars :
        GetHaltonDraws(sample_size, n_draws, n_vars)

SpecHalton == InitHalton /\ [][NextHalton]_vars

\* element i (counted from 0) of the radical-inverse sequence of base p:
\* the digits of i in base p, mirrored at the point
RECURSIVE RadicalInverse(_, _)
RadicalInverse(i, p) ==
    IF i = 0 THEN Frac(0, 1)
    ELSE LET rest == RadicalInverse(i \div p, p)
         IN Frac((i % p) * rest.den + rest.num, rest.den * p)

\* C12: for every prime of the table and every length L, halton_seq leaves
\* its loop (after the least t with prime**t >= L + 100) and returns exactly
\* L values, the elements 100 .. 100+L-1 of the radical-inverse sequence of
\* that base, each strictly between 0 and 1 and no two the same;
\* _get_halton_draws arranges the sample_size*n_draws values of every
\* variable into (sample_size, n_vars, n_draws).
C12_HaltonDraws ==
    hal.calls = 1 =>
        LET L == hal.sample_size * hal.n_draws
        IN /\ Len(hal.seqs) = hal.n_vars
           /\ \A k \in 1..hal.n_vars :
                LET prime == primes[((k - 1) % Len(primes)) + 1]
                    seq == hal.seqs[k].seq
                    t == hal.seqs[k].t
                IN /\ t >= 1
                   /\ Pow(prime, t) >= L + drop
                   /\ Pow(prime, t - 1) < L + drop
                   /\ Len(seq) = L
                   /\ \A i \in 1..L :
                        /\ FEq(seq[i], RadicalInverse(drop + i - 1, prime))
                        /\ FLess(Frac(0, 1), seq[i])
                        /\ FLess(seq[i], Frac(1, 1))
                        /\ \A j \in 1..L : i # j => ~FEq(seq[i], seq[j])
           /\ Len(hal.draws) = hal.sample_size
           /\ \A n \in 1..hal.sample_size :
                /\ Len(hal.draws[n]) = hal.n_vars
                /\ \A k \in 1..hal.n_vars :
                     /\ Len(hal.draws[n][k]) = hal.n_draws
                     /\ \A r \in 1..hal.n_draws :
                          hal.draws[n][k][r]
                              = hal.seqs[k].seq[(n - 1) * hal.n_draws + r]

\* C12's case: 5 draws for 3 samples, for more variables than the table has
\* primes: base 2 (seven rounds of the loop) is used for the first variable
\* and again for the last, base 199 (one round) for the one before
C12_Witness ==
    /\ hal.calls = 1
    /\ hal.sample_size = 3
    /\ hal.n_draws = 5
    /\ hal.n_vars = Len(primes) + 1
    /\ hal.seqs[1].t = 7
    /\ hal.seqs[Len(primes)].t = 1
    /\ hal.seqs[Len(primes) + 1] = hal.seqs[1]
    /\ Len(hal.seqs[1].seq) = 15

=============================================================================
